---- MODULE Spec2Model ----
(***************************************************************************)
(* Model of the music library client: the bulk song ingestion pipeline     *)
(* (BulkUploader inside AdminDashboard), the application root (App) that   *)
(* commits song records, and the IndexedDB library store (lib/db.ts).      *)
(*                                                                         *)
(* Granularity.  JavaScript runs every handler and every promise           *)
(* continuation to completion, and React renders the batched state updates *)
(* of such a stretch before the next user event is dispatched.  An action  *)
(* of the model is therefore one stretch of code between two awaits.       *)
(*                                                                         *)
(* Strings that the code assembles from pieces (template literals, URLs,   *)
(* error messages) are sequences of fragments; "contains" is membership of *)
(* a fragment.  Optional fields are sequences of length 0 (undefined) or 1.*)
(***************************************************************************)
EXTENDS Integers, Sequences, FiniteSets, TLC

\* ------------------------------------------------------------------ bounds
MaxFiles == 2      \* files staged over one session
MaxSelect == 2     \* files picked in one file-input change event
MaxCommits == 1    \* addSongs calls over one session
MaxClock == 0      \* milliseconds the wall clock can advance
MaxPreviews == 2   \* object URLs alive when a cover image is picked, at most
MaxSongs == 3      \* songs committed before and while the player is open

\* ------------------------------------------------------- values and inputs
Undefined == "undefined"

\* a JSON value that is not a string: the number 42
NumberValue == "42 (number)"

Truthy(v) == v \notin {"", Undefined}

\* a || b on strings
Or(a, b) == IF Truthy(a) THEN a ELSE b

\* File objects: a name and the blob they hold.  Every file of a FileList is
\* a File object of its own; the n-th file the user stages is AudioFile(n).
\* Its name, like every assembled string, is a sequence of fragments.
FileName(n) == <<"track">> \o [i \in 1..n |-> "I"] \o <<".mp3">>
AudioFile(n) == [name |-> FileName(n), blob |-> <<"audio">> \o FileName(n)]

\* messages of errors raised outside the repository's code: fetch and
\* Response.blob reject with a TypeError, JSON.parse and Response.json with a
\* SyntaxError, the SDK call with whatever it likes; <<>> is a rejection
\* value without a message
FetchFailed == <<"Failed to fetch">>
SyntaxErrorMessage == <<"Unexpected token in JSON">>
SdkRejectMessages == {FetchFailed, <<>>}

\* geminiResponse.text as parsed by JSON.parse: malformed text, or an object
\* whose title/artist may be missing or empty
GeminiTitle == "yesterday"
GeminiArtist == "beatles"
GeminiResults ==
  { [kind |-> "malformed", title |-> Undefined, artist |-> Undefined],
    [kind |-> "json", title |-> GeminiTitle, artist |-> GeminiArtist],
    [kind |-> "json", title |-> "", artist |-> GeminiArtist],
    [kind |-> "json", title |-> GeminiTitle, artist |-> Undefined],
    [kind |-> "json", title |-> NumberValue, artist |-> GeminiArtist] }

\* artwork URLs as fragments; <<>> is an absent (or empty) artworkUrl100
ThumbUrl == <<"http://x/", "100x100", "bb.jpg">>
PlainUrl == <<"http://x/art.jpg">>

FullTrack == [trackName |-> "Yesterday", artistName |-> "The Beatles",
              collectionName |-> "Help!", artworkUrl100 |-> ThumbUrl]
BareTrack == [trackName |-> Undefined, artistName |-> Undefined,
              collectionName |-> Undefined, artworkUrl100 |-> PlainUrl]
NoArtTrack == [trackName |-> "Yesterday", artistName |-> "The Beatles",
               collectionName |-> "Help!", artworkUrl100 |-> <<>>]

\* itunesResponse.json(): the catalog's answer
ItunesData ==
  { [resultCount |-> 0, results |-> <<>>],
    [resultCount |-> 1, results |-> <<FullTrack>>],
    [resultCount |-> 1, results |-> <<BareTrack>>],
    [resultCount |-> 1, results |-> <<NoArtTrack>>] }

\* ---------------------------------------------------------------- state
VARIABLES
  \* App (part_001)
  userRole,        \* "null" | "admin" | "user"
  songs,           \* in-memory library: sequence of display songs
  isLoading,
  \* lib/db.ts
  dbStore,         \* object store 'songs': set of stored songs, keyed by id
  \* AdminDashboard
  activeTab,       \* "bulk" | "single"
  \* SingleSongUploader: component state and the running handleFetchInfo call
  single,
  \* UserPlayer: component state
  player,
  \* BulkUploader component state
  stagedFiles, isProcessing, processedCount,
  \* the running handleProcessQueue call: its closure and its position
  pc,              \* "idle" or the await the run is suspended at
  snapshot,        \* stagedFiles as captured by the handler's closure
  idx,             \* position of the for-of loop in snapshot
  currentProcessed,
  locals,          \* processFile's local variables
  attempted,       \* history: ids the running call has called processFile for
  settled,         \* history: the processFile call that settled in the step
                   \* just taken, if one did: its item, locals and outcome
  \* handleAddSongsToLibrary / addSongs calls awaiting the store
  commits,         \* queue of such calls, oldest first
  commitCalls,     \* handleAddSongsToLibrary calls made so far
  putCalls,        \* addSongs (addSongsToDB) calls made so far
  objectURLs,      \* the object URLs created and not revoked
  stored,          \* history: the addSongsToDB call that settled in the step
                   \* just taken, if one did: the addSongs call and the outcome
  \* environment
  nextId,          \* files staged so far (File objects and ids are unique)
  now              \* wall clock, in milliseconds

appVars == <<userRole, songs, isLoading, dbStore, activeTab, single, player>>
bulkVars == <<stagedFiles, isProcessing, processedCount>>
runVars == <<pc, snapshot, idx, currentProcessed, locals, attempted>>
commitVars == <<commits, commitCalls, putCalls, objectURLs>>
envVars == <<nextId, now>>
vars == <<appVars, bulkVars, runVars, settled, stored, commitVars, envVars>>

\* BulkUploader is rendered (App.renderContent, AdminDashboard line 381)
BulkMounted == ~isLoading /\ userRole = "admin" /\ activeTab = "bulk"

\* processFile's locals before its first await settles; calls lists the
\* requests the call has sent so far
NoLocals == [geminiResponse |-> <<>>, title |-> Undefined, artist |-> Undefined,
             itunesResponse |-> <<>>, itunesData |-> <<>>,
             songDetails |-> <<>>, url |-> <<>>, artResponse |-> <<>>,
             calls |-> <<>>]

\* processFile(stagedFile.file) up to its first await
StartLocals == [NoLocals EXCEPT !.calls = <<"generateContent">>]

\* ------------------------------------------------------------ StagedFile
NewStagedFile(id, file) ==
  [id |-> id, file |-> file, status |-> "pending",
   songDetails |-> <<>>, coverArtFile |-> <<>>, error |-> <<>>]

\* { ...sf, ...upd }
Spread(sf, upd) ==
  [f \in DOMAIN sf |-> IF f \in DOMAIN upd THEN upd[f] ELSE sf[f]]

\* the update below computed from the array the handler's closure holds
\* instead of the current one: stagedFiles.map(...)
MapStaged_fromClosure(prev, id, upd) ==
  [i \in 1..Len(snapshot) |->
     IF snapshot[i].id = id THEN Spread(snapshot[i], upd) ELSE snapshot[i]]

\* prev.map(sf => sf.id === id ? { ...sf, ...upd } : sf)
MapStaged(prev, id, upd) ==
  [i \in 1..Len(prev) |->
     IF prev[i].id = id THEN Spread(prev[i], upd) ELSE prev[i]]

CountStatus(list, st) == Cardinality({i \in 1..Len(list) : list[i].status = st})
successfulCount == CountStatus(stagedFiles, "success")
pendingCount == CountStatus(stagedFiles, "pending")

\* e.target.files of a change event that selects n files (n may be 0)
FileList(n) == [k \in 1..n |-> AudioFile(nextId + k)]

\* ------------------------------------------------- BulkUploader: staging
\* the handler below with setStagedFiles(newStagedFiles)
handleFileChange_replace(files) ==
  /\ BulkMounted
  /\ nextId + Len(files) <= MaxFiles
  /\ stagedFiles' = [k \in 1..Len(files) |-> NewStagedFile(nextId + k, files[k])]
  /\ nextId' = nextId + Len(files)
  /\ settled' = <<>>
  /\ stored' = <<>>
  /\ UNCHANGED <<appVars, isProcessing, processedCount, runVars, commitVars, now>>

\* ids are `${file.name}-${file.lastModified}-${Math.random()}`: the random
\* suffix makes every id distinct, which the counter nextId reproduces
handleFileChange(files) ==
  /\ BulkMounted
  /\ nextId + Len(files) <= MaxFiles
  /\ stagedFiles' = stagedFiles \o
        [k \in 1..Len(files) |-> NewStagedFile(nextId + k, files[k])]
  /\ nextId' = nextId + Len(files)
  /\ settled' = <<>>
  /\ stored' = <<>>
  /\ UNCHANGED <<appVars, isProcessing, processedCount, runVars, commitVars, now>>

\* onClick of "Clear All" (disabled while processing)
ClearAll ==
  /\ BulkMounted
  /\ Len(stagedFiles) > 0
  /\ ~isProcessing
  /\ stagedFiles' = <<>>
  /\ settled' = <<>>
  /\ stored' = <<>>
  /\ UNCHANGED <<appVars, isProcessing, processedCount, runVars, commitVars, envVars>>

\* ------------------------------------------ BulkUploader: handleProcessQueue
\* the loop test below written as status !== 'success': error items are
\* taken up again
NextPending_retryErrors(snap, i) ==
  IF \E j \in i..Len(snap) : snap[j].status # "success"
  THEN CHOOSE j \in i..Len(snap) :
         /\ snap[j].status # "success"
         /\ \A k \in i..(j - 1) : snap[k].status = "success"
  ELSE 0

\* the loop below walking the batch from its end
NextPending_last(snap, i) ==
  IF \E j \in i..Len(snap) : snap[j].status = "pending"
  THEN CHOOSE j \in i..Len(snap) :
         /\ snap[j].status = "pending"
         /\ \A k \in (j + 1)..Len(snap) : snap[k].status # "pending"
  ELSE 0

\* index of the first element of snap at or after i that the loop does not
\* skip (status 'pending' in the closure's copy), 0 when there is none
NextPending(snap, i) ==
  IF \E j \in i..Len(snap) : snap[j].status = "pending"
  THEN CHOOSE j \in i..Len(snap) :
         /\ snap[j].status = "pending"
         /\ \A k \in i..(j - 1) : snap[k].status # "pending"
  ELSE 0

MarkProcessing == [status |-> "processing"]

\* The for-of loop from element i on, until processFile suspends at its
\* first await or the loop ends.  cp is currentProcessed on entry, staged the
\* value of stagedFiles after the updates already queued in this stretch.
\* When the loop ends the call returns and its closure is gone.
RunLoop(snap, staged, i, cp, att) ==
  LET j == NextPending(snap, i) IN
  /\ IF j = 0
     THEN /\ processedCount' = cp + (Len(snap) + 1 - i)
          /\ locals' = NoLocals
          /\ stagedFiles' = staged
          /\ isProcessing' = FALSE
          /\ pc' = "idle"
          /\ snapshot' = <<>>
          /\ idx' = 0
          /\ currentProcessed' = 0
          /\ attempted' = {}
     ELSE /\ snapshot' = snap
          /\ locals' = StartLocals
          /\ currentProcessed' = cp + (j - i)
          /\ processedCount' = cp + (j - i)
          /\ stagedFiles' = MapStaged(staged, snap[j].id, MarkProcessing)
          /\ attempted' = att \cup {snap[j].id}
          /\ isProcessing' = TRUE
          /\ pc' = "extract"
          /\ idx' = j

\* onClick of "Process All Files" (disabled while processing or when no
\* item is pending): setIsProcessing(true), setProcessedCount(0), loop
handleProcessQueue ==
  /\ BulkMounted
  /\ Len(stagedFiles) > 0
  /\ ~isProcessing
  /\ pendingCount # 0
  /\ RunLoop(stagedFiles, stagedFiles, 1, 0, {})
  /\ settled' = <<>>
  /\ stored' = <<>>
  /\ UNCHANGED <<appVars, commitVars, envVars>>

\* e.message || 'An unknown error occurred'
ErrorText(raw) == IF raw # <<>> THEN raw ELSE <<"An unknown error occurred">>

\* the catch block below putting the item back to pending for a retry
Catch_requeue(site, raw, loc) ==
  LET id == snapshot[idx].id
      SetError == [status |-> "pending", error |-> <<ErrorText(raw)>>]
  IN /\ stored' = <<>>
     /\ settled' = <<[id |-> id, outcome |-> "rejected", site |-> site,
                      raw |-> raw, locals |-> loc]>>
     /\ RunLoop(snapshot, MapStaged(stagedFiles, id, SetError),
                idx + 1, currentProcessed + 1, attempted)

\* the catch block below placed around the loop instead of inside it: the
\* first failure ends the run
Catch_abort(site, raw, loc) ==
  LET id == snapshot[idx].id
      SetError == [status |-> "error", error |-> <<ErrorText(raw)>>]
  IN /\ stored' = <<>>
     /\ settled' = <<[id |-> id, outcome |-> "rejected", site |-> site,
                      raw |-> raw, locals |-> loc]>>
     /\ stagedFiles' = MapStaged(stagedFiles, id, SetError)
     /\ processedCount' = currentProcessed + 1
     /\ isProcessing' = FALSE
     /\ pc' = "idle"
     /\ snapshot' = <<>>
     /\ idx' = 0
     /\ currentProcessed' = 0
     /\ locals' = NoLocals
     /\ attempted' = {}

\* the catch block below with the progress update inside the try block only
Catch_noProgress(site, raw, loc) ==
  LET id == snapshot[idx].id
      SetError == [status |-> "error", error |-> <<ErrorText(raw)>>]
  IN /\ stored' = <<>>
     /\ settled' = <<[id |-> id, outcome |-> "rejected", site |-> site,
                      raw |-> raw, locals |-> loc]>>
     /\ RunLoop(snapshot, MapStaged(stagedFiles, id, SetError),
                idx + 1, currentProcessed, attempted)

\* processFile throws at site with message raw, its locals being loc: the
\* catch block for the item in hand, then the rest of the loop
Catch(site, raw, loc) ==
  LET id == snapshot[idx].id
      SetError == [status |-> "error", error |-> <<ErrorText(raw)>>]
  IN /\ stored' = <<>>
     /\ settled' = <<[id |-> id, outcome |-> "rejected", site |-> site,
                      raw |-> raw, locals |-> loc]>>
     /\ RunLoop(snapshot, MapStaged(stagedFiles, id, SetError),
                idx + 1, currentProcessed + 1, attempted)

\* the success update below without the status field
Resolve_keepsProcessing(songDetails, coverArtFile) ==
  LET id == snapshot[idx].id
      SetSuccess == [songDetails |-> <<songDetails>>,
                     coverArtFile |-> <<coverArtFile>>]
  IN /\ stored' = <<>>
     /\ settled' = <<[id |-> id, outcome |-> "resolved", site |-> "return",
                      raw |-> <<>>, locals |-> locals]>>
     /\ RunLoop(snapshot, MapStaged(stagedFiles, id, SetSuccess),
                idx + 1, currentProcessed + 1, attempted)

\* the success update below without the cover-art file
Resolve_noCover(songDetails, coverArtFile) ==
  LET id == snapshot[idx].id
      SetSuccess == [status |-> "success", songDetails |-> <<songDetails>>]
  IN /\ stored' = <<>>
     /\ settled' = <<[id |-> id, outcome |-> "resolved", site |-> "return",
                      raw |-> <<>>, locals |-> locals]>>
     /\ RunLoop(snapshot, MapStaged(stagedFiles, id, SetSuccess),
                idx + 1, currentProcessed + 1, attempted)

\* the success update for the item in hand, then the rest of the loop
Resolve(songDetails, coverArtFile) ==
  LET id == snapshot[idx].id
      SetSuccess == [status |-> "success", songDetails |-> <<songDetails>>,
                     coverArtFile |-> <<coverArtFile>>]
  IN /\ stored' = <<>>
     /\ settled' = <<[id |-> id, outcome |-> "resolved", site |-> "return",
                      raw |-> <<>>, locals |-> locals]>>
     /\ RunLoop(snapshot, MapStaged(stagedFiles, id, SetSuccess),
                idx + 1, currentProcessed + 1, attempted)

Suspend(at, loc) ==
  /\ pc' = at
  /\ locals' = loc
  /\ settled' = <<>>
  /\ stored' = <<>>
  /\ UNCHANGED <<bulkVars, snapshot, idx, currentProcessed, attempted>>

\* url.replace('100x100', '600x600'): the first occurrence only
ReplaceFirst(url, old, new) ==
  IF \E i \in 1..Len(url) : url[i] = old
  THEN LET p == CHOOSE i \in 1..Len(url) :
                  url[i] = old /\ \A k \in 1..(i - 1) : url[k] # old
       IN [url EXCEPT ![p] = new]
  ELSE url

\* processFile, await ai.models.generateContent(...) settles; JSON.parse,
\* the title/artist check, and the catalog request is sent
GeminiSettled ==
  /\ pc = "extract"
  /\ \/ \E m \in SdkRejectMessages : Catch("generateContent", m, locals)
     \/ \E r \in GeminiResults :
          LET got == [locals EXCEPT !.geminiResponse = <<r>>]
              loc == [got EXCEPT !.title = r.title, !.artist = r.artist]
          IN IF r.kind = "malformed"
             THEN Catch("JSON.parse", SyntaxErrorMessage, got)
             ELSE IF ~Truthy(r.title) \/ ~Truthy(r.artist)
             THEN Catch("validate",
                        <<"AI could not determine title and artist.">>, loc)
             ELSE Suspend("search", [loc EXCEPT !.calls = Append(@, "search")])
  /\ UNCHANGED <<appVars, commitVars, envVars>>

\* the step below without the itunesResponse.ok check
ItunesSettled_noOkCheck ==
  /\ pc = "search"
  /\ \/ Catch("search fetch", FetchFailed, locals)
     \/ \E ok \in BOOLEAN :
          Suspend("searchBody", [locals EXCEPT !.itunesResponse = <<[ok |-> ok]>>])
  /\ UNCHANGED <<appVars, commitVars, envVars>>

\* processFile, await fetch(itunes search) settles
ItunesSettled ==
  /\ pc = "search"
  /\ \/ Catch("search fetch", FetchFailed, locals)
     \/ \E ok \in BOOLEAN :
          LET loc == [locals EXCEPT !.itunesResponse = <<[ok |-> ok]>>] IN
          IF ~ok THEN Catch("search status", <<"iTunes search failed.">>, loc)
          ELSE Suspend("searchBody", loc)
  /\ UNCHANGED <<appVars, commitVars, envVars>>

\* the object below with the album falling back to the extracted artist
SongDetails_albumFromArtist(songData, title, artist) ==
  [title |-> Or(songData.trackName, title),
   artist |-> Or(songData.artistName, artist),
   album |-> Or(songData.collectionName, artist)]

\* songDetails of processFile
SongDetails(songData, title, artist) ==
  [title |-> Or(songData.trackName, title),
   artist |-> Or(songData.artistName, artist),
   album |-> Or(songData.collectionName, title)]

\* (songData.artworkUrl100 || '').replace('100x100', '600x600')
HighResArtworkUrl(songData) ==
  ReplaceFirst(songData.artworkUrl100, "100x100", "600x600")

\* new File([artBlob], 'cover.jpg', ...) for the blob served at url
CoverArtFile(url) == [name |-> <<"cover.jpg">>, blob |-> url]

\* the step below without the resultCount check: results[0] is undefined
\* for an empty result list and reading its trackName throws a TypeError
ItunesJsonSettled_noCountCheck ==
  /\ pc = "searchBody"
  /\ \/ Catch("search json", SyntaxErrorMessage, locals)
     \/ \E itunesData \in ItunesData :
          LET loc == [locals EXCEPT !.itunesData = <<itunesData>>] IN
          IF itunesData.results = <<>>
          THEN Catch("results[0]", <<"Cannot read properties of undefined">>, loc)
          ELSE LET songData == itunesData.results[1]
                   songDetails == SongDetails(songData, locals.title, locals.artist)
                   highResArtworkUrl == HighResArtworkUrl(songData)
               IN IF highResArtworkUrl = <<>>
                  THEN Catch("no art url", <<"Cover art not found.">>,
                             [loc EXCEPT !.songDetails = <<songDetails>>])
                  ELSE Suspend("art", [loc EXCEPT
                                         !.songDetails = <<songDetails>>,
                                         !.url = highResArtworkUrl,
                                         !.calls = Append(@, "art")])
  /\ UNCHANGED <<appVars, commitVars, envVars>>

\* processFile, await itunesResponse.json() settles; songDetails, the
\* high-resolution URL, and the artwork request is sent
ItunesJsonSettled ==
  /\ pc = "searchBody"
  /\ \/ Catch("search json", SyntaxErrorMessage, locals)
     \/ \E itunesData \in ItunesData :
          LET loc == [locals EXCEPT !.itunesData = <<itunesData>>] IN
          IF itunesData.resultCount = 0
          THEN Catch("no match", <<"Song not found on iTunes.">>, loc)
          ELSE LET songData == itunesData.results[1]
                   songDetails == SongDetails(songData, locals.title, locals.artist)
                   highResArtworkUrl == HighResArtworkUrl(songData)
               IN IF highResArtworkUrl = <<>>
                  THEN Catch("no art url", <<"Cover art not found.">>,
                             [loc EXCEPT !.songDetails = <<songDetails>>])
                  ELSE Suspend("art", [loc EXCEPT
                                         !.songDetails = <<songDetails>>,
                                         !.url = highResArtworkUrl,
                                         !.calls = Append(@, "art")])
  /\ UNCHANGED <<appVars, commitVars, envVars>>

\* the step below without the artResponse.ok check: the body of any
\* response is read
ArtSettled_noStatusCheck ==
  /\ pc = "art"
  /\ \/ Catch("art fetch", FetchFailed, locals)
     \/ \E ok \in BOOLEAN :
          Suspend("artBody", [locals EXCEPT !.artResponse = <<[ok |-> ok]>>])
  /\ UNCHANGED <<appVars, commitVars, envVars>>

\* processFile, await fetch(highResArtworkUrl) settles
ArtSettled ==
  /\ pc = "art"
  /\ \/ Catch("art fetch", FetchFailed, locals)
     \/ \E ok \in BOOLEAN :
          LET loc == [locals EXCEPT !.artResponse = <<[ok |-> ok]>>] IN
          IF ~ok THEN Catch("art status", <<"Failed to download cover art.">>, loc)
          ELSE Suspend("artBody", loc)
  /\ UNCHANGED <<appVars, commitVars, envVars>>

\* processFile, await artResponse.blob() settles; the item succeeds
ArtBlobSettled ==
  /\ pc = "artBody"
  /\ \/ Catch("art blob", FetchFailed, locals)
     \/ Resolve(locals.songDetails[1], CoverArtFile(locals.url))
  /\ UNCHANGED <<appVars, commitVars, envVars>>

\* ------------------------------------------------------------ lib/db.ts
\* store.put(song) on an object store with keyPath 'id': a record with the
\* same key is replaced
Put(store, song) == {r \in store : r.id # song.id} \cup {song}

RECURSIVE PutAll(_, _)
PutAll(store, list) ==
  IF list = <<>> THEN store ELSE PutAll(Put(store, Head(list)), Tail(list))

\* URL.createObjectURL(file): the browser returns a URL that no live object
\* URL equals; n is the serial that tells it from the others
ObjectURL(file, n) == <<"blob:", n, file>>

\* the k-th serial that no URL in live carries
NthFree(live, k) ==
  LET used == {u[2] : u \in live} IN
  CHOOSE n \in 1..(Cardinality(used) + k) :
     n \notin used /\ Cardinality({m \in 1..n : m \notin used}) = k

\* the object URLs held by a list of display songs
URLsOf(list) ==
  {list[i].audioSrc : i \in 1..Len(list)} \cup {list[i].coverArtSrc : i \in 1..Len(list)}

\* ---------------------------------------------------------------- App
\* non-decreasing readings of the clock, one per record, not before now
Stamps(n) ==
  {ts \in [1..n -> now..MaxClock] : \A i \in 1..(n - 1) : ts[i] <= ts[i + 1]}

\* the id below built from the timestamp alone
SongId_stampOnly(stamp, title) == <<stamp, "-">>

\* `${new Date().toISOString()}-${data.title}`
SongId(stamp, title) == <<stamp, "-", title>>

newStoredSongs(newSongsData, ts) ==
  [i \in 1..Len(newSongsData) |->
     [id |-> SongId(ts[i], newSongsData[i].title),
      title |-> newSongsData[i].title,
      artist |-> newSongsData[i].artist,
      album |-> newSongsData[i].album,
      audioFile |-> newSongsData[i].audioFile,
      coverArtFile |-> newSongsData[i].coverArtFile]]

newDisplaySongs(newSongsData, ts) ==
  [i \in 1..Len(newSongsData) |->
     [id |-> SongId(ts[i], newSongsData[i].title),
      title |-> newSongsData[i].title,
      artist |-> newSongsData[i].artist,
      album |-> newSongsData[i].album,
      audioSrc |-> ObjectURL(newSongsData[i].audioFile,
                             NthFree(objectURLs, 2 * i - 1)),
      coverArtSrc |-> ObjectURL(newSongsData[i].coverArtFile,
                                NthFree(objectURLs, 2 * i))]]

\* addSongs up to `await addSongsToDB(newStoredSongs)`; from says which
\* staged items the records were built from (the caller's successfulFiles)
addSongs(newSongsData, from, ts) ==
  /\ commits' = Append(commits,
        [successfulFiles |-> from,
         stamps |-> ts,
         newStoredSongs |-> newStoredSongs(newSongsData, ts),
         newDisplaySongs |-> newDisplaySongs(newSongsData, ts),
         mounted |-> TRUE])
  /\ putCalls' = putCalls + 1
  /\ objectURLs' = objectURLs \cup URLsOf(newDisplaySongs(newSongsData, ts))
  /\ now' = IF Len(ts) = 0 THEN now ELSE ts[Len(ts)]

\* ------------------------------------- BulkUploader: handleAddSongsToLibrary
IsSuccess(sf) == sf.status = "success"

\* stagedFiles.filter(sf => sf.status === 'success')
SuccessfulFiles(list) == SelectSeq(list, IsSuccess)

\* sf.songDetails!.title and URL.createObjectURL(sf.coverArtFile!) throw a
\* TypeError on an item without details or cover art
Complete(sf) == sf.songDetails # <<>> /\ sf.coverArtFile # <<>>

SongDataOf(sf) ==
  [title |-> sf.songDetails[1].title,
   artist |-> sf.songDetails[1].artist,
   album |-> sf.songDetails[1].album,
   audioFile |-> sf.file,
   coverArtFile |-> sf.coverArtFile[1]]

\* the handler below without its early return
handleAddSongsToLibrary_noEarlyReturn ==
  LET successfulFiles == SuccessfulFiles(stagedFiles) IN
  /\ commitCalls < MaxCommits
  /\ commitCalls' = commitCalls + 1
  /\ IF \E i \in 1..Len(successfulFiles) : ~Complete(successfulFiles[i])
     THEN UNCHANGED <<commits, putCalls, objectURLs, now>>
     ELSE \E ts \in Stamps(Len(successfulFiles)) :
            addSongs([i \in 1..Len(successfulFiles) |->
                        SongDataOf(successfulFiles[i])],
                     successfulFiles, ts)
  /\ settled' = <<>>
  /\ stored' = <<>>
  /\ UNCHANGED <<appVars, bulkVars, runVars, nextId>>

\* the handler below without the status filter, reading the optional fields
\* with ?. and a placeholder cover
handleAddSongsToLibrary_noFilter ==
  LET successfulFiles == stagedFiles
      Lenient(sf) ==
        IF Complete(sf) THEN SongDataOf(sf)
        ELSE [title |-> Undefined, artist |-> Undefined, album |-> Undefined,
              audioFile |-> sf.file, coverArtFile |-> CoverArtFile(<<>>)]
  IN
  /\ commitCalls < MaxCommits
  /\ commitCalls' = commitCalls + 1
  /\ IF Len(successfulFiles) = 0
     THEN UNCHANGED <<commits, putCalls, objectURLs, now>>
     ELSE \E ts \in Stamps(Len(successfulFiles)) :
            addSongs([i \in 1..Len(successfulFiles) |->
                        Lenient(successfulFiles[i])],
                     successfulFiles, ts)
  /\ settled' = <<>>
  /\ stored' = <<>>
  /\ UNCHANGED <<appVars, bulkVars, runVars, nextId>>

\* the handler up to `await addSongs(newSongsData)`
handleAddSongsToLibrary ==
  LET successfulFiles == SuccessfulFiles(stagedFiles) IN
  /\ commitCalls < MaxCommits
  /\ commitCalls' = commitCalls + 1
  /\ IF Len(successfulFiles) = 0
        \/ \E i \in 1..Len(successfulFiles) : ~Complete(successfulFiles[i])
     THEN UNCHANGED <<commits, putCalls, objectURLs, now>>
     ELSE \E ts \in Stamps(Len(successfulFiles)) :
            addSongs([i \in 1..Len(successfulFiles) |->
                        SongDataOf(successfulFiles[i])],
                     successfulFiles, ts)
  /\ settled' = <<>>
  /\ stored' = <<>>
  /\ UNCHANGED <<appVars, bulkVars, runVars, nextId>>

\* onClick of "Add Songs to Library" (disabled while processing or when no
\* item succeeded)
ClickAddSongs ==
  /\ BulkMounted
  /\ Len(stagedFiles) > 0
  /\ ~isProcessing
  /\ successfulCount # 0
  /\ handleAddSongsToLibrary

\* ------------------------------------------------- UserPlayer: its state
\* the player is rendered (App.renderContent, case 'user')
PlayerMounted == ~isLoading /\ userRole = "user"

\* the useState initial values; progress and duration follow the audio
\* element and are left out
NewPlayer == [currentSongIndex |-> 0, isPlaying |-> FALSE, searchTerm |-> "",
              volume |-> 1, isMuted |-> FALSE]

\* useEffect on [songs]: the player is reset when the library is empty
ResetEffect(p, list) ==
  IF Len(list) = 0
  THEN [p EXCEPT !.isPlaying = FALSE, !.currentSongIndex = 0]
  ELSE p

\* the step below with a catch block that only logs the error
addSongsToDBSettled_noRevoke(ok) ==
  /\ commits # <<>>
  /\ LET c == Head(commits) IN
       /\ dbStore' = IF ok THEN PutAll(dbStore, c.newStoredSongs) ELSE dbStore
       /\ songs' = IF ok THEN songs \o c.newDisplaySongs ELSE songs
       /\ objectURLs' = objectURLs
       /\ stored' = <<[ok |-> ok, call |-> c]>>
       /\ IF c.mounted
          THEN stagedFiles' = <<>> /\ processedCount' = 0
          ELSE UNCHANGED <<stagedFiles, processedCount>>
  /\ commits' = Tail(commits)
  /\ player' = IF PlayerMounted THEN ResetEffect(player, songs') ELSE player
  /\ settled' = <<>>
  /\ UNCHANGED <<userRole, isLoading, activeTab, single, isProcessing, runVars,
                 commitCalls, putCalls, envVars>>

\* The store transaction of the oldest addSongs call completes or fails;
\* addSongs updates or cleans up, and the handler that awaited it, if its
\* component is still mounted, clears the staged collection.
addSongsToDBSettled(ok) ==
  /\ commits # <<>>
  /\ LET c == Head(commits) IN
       /\ dbStore' = IF ok THEN PutAll(dbStore, c.newStoredSongs) ELSE dbStore
       /\ songs' = IF ok THEN songs \o c.newDisplaySongs ELSE songs
       /\ objectURLs' = IF ok THEN objectURLs
                        ELSE objectURLs \ URLsOf(c.newDisplaySongs)
       /\ stored' = <<[ok |-> ok, call |-> c]>>
       /\ IF c.mounted
          THEN stagedFiles' = <<>> /\ processedCount' = 0
          ELSE UNCHANGED <<stagedFiles, processedCount>>
  /\ commits' = Tail(commits)
  /\ player' = IF PlayerMounted THEN ResetEffect(player, songs') ELSE player
  /\ settled' = <<>>
  /\ UNCHANGED <<userRole, isLoading, activeTab, single, isProcessing, runVars,
                 commitCalls, putCalls, envVars>>

\* getSongsFromDB: store.getAll() mapped to display songs
getSongsFromDB(store, live) ==
  LET Display(s, n) == [id |-> s.id, title |-> s.title, artist |-> s.artist,
                     album |-> s.album,
                     audioSrc |-> ObjectURL(s.audioFile,
                                            NthFree(live, 2 * n - 1)),
                     coverArtSrc |-> ObjectURL(s.coverArtFile,
                                               NthFree(live, 2 * n))]
      RECURSIVE List(_)
      List(S) == IF S = {} THEN <<>>
                 ELSE LET x == CHOOSE y \in S : TRUE
                      IN <<Display(x, Cardinality(S))>> \o List(S \ {x})
  IN List(store)

\* useEffect of App: loadInitialSongs settles
loadInitialSongs(ok) ==
  /\ isLoading
  /\ songs' = IF ok THEN getSongsFromDB(dbStore, objectURLs) ELSE songs
  /\ objectURLs' = IF ok THEN objectURLs \cup URLsOf(songs') ELSE objectURLs
  /\ isLoading' = FALSE
  /\ settled' = <<>>
  /\ stored' = <<>>
  /\ UNCHANGED <<userRole, dbStore, activeTab, single, player, bulkVars, runVars,
                 commits,
                 commitCalls, putCalls, envVars>>

\* ------------------------------------------------------------ UserPlayer
\* a % n of JavaScript for n > 0: the result has the sign of a
JsRem(a, n) == IF a >= 0 THEN a % n ELSE 0 - ((0 - a) % n)

\* (prevIndex + 1) % songs.length
NextIndex(prevIndex, length) == JsRem(prevIndex + 1, length)

\* the index below without the added songs.length
PrevIndex_noOffset(prevIndex, length) == JsRem(prevIndex - 1, length)

\* (prevIndex - 1 + songs.length) % songs.length
PrevIndex(prevIndex, length) == JsRem(prevIndex - 1 + length, length)

\* a step of the player that leaves its state as next
PlayerStep(next) ==
  /\ PlayerMounted
  /\ player' = next
  /\ settled' = <<>>
  /\ stored' = <<>>
  /\ UNCHANGED <<userRole, songs, isLoading, dbStore, activeTab, single,
                 bulkVars, runVars, commitVars, envVars>>

togglePlayPause ==
  PlayerStep(IF Len(songs) > 0
             THEN [player EXCEPT !.isPlaying = ~player.isPlaying]
             ELSE player)

playNext ==
  PlayerStep(IF Len(songs) = 0 THEN player
             ELSE [player EXCEPT
                     !.currentSongIndex = NextIndex(@, Len(songs)),
                     !.isPlaying = TRUE])

playPrev ==
  PlayerStep(IF Len(songs) = 0 THEN player
             ELSE [player EXCEPT
                     !.currentSongIndex = PrevIndex(@, Len(songs)),
                     !.isPlaying = TRUE])

\* onEnded of the audio element, which is rendered while songs[index] exists
handleSongEnd ==
  /\ player.currentSongIndex \in 0..(Len(songs) - 1)
  /\ playNext

\* what is typed into "Search playlist...": nothing, a song's whole title
\* in lower case, or a word that no song carries
SearchTerms == {"", "help!", "zzz"}

\* text.toLowerCase() for the texts of the library
ToLowerCase(text) ==
  CASE text = "Yesterday" -> "yesterday"
    [] text = "Help!" -> "help!"
    [] text = "Girl" -> "girl"
    [] text = "The Beatles" -> "the beatles"
    [] text = "Rubber Soul" -> "rubber soul"
    [] OTHER -> text

\* text.toLowerCase().includes(term.toLowerCase()) for the terms above
Includes(text, term) == term = "" \/ ToLowerCase(text) = ToLowerCase(term)

Matches(song) ==
  \/ Includes(song.title, player.searchTerm)
  \/ Includes(song.artist, player.searchTerm)
  \/ Includes(song.album, player.searchTerm)

filteredSongs == SelectSeq(songs, Matches)

\* songs.findIndex(s => s.id === id): the first position, counted from 0,
\* or -1
findIndex(list, id) ==
  IF \E k \in 1..Len(list) : list[k].id = id
  THEN (CHOOSE k \in 1..Len(list) :
          list[k].id = id /\ \A m \in 1..(k - 1) : list[m].id # id) - 1
  ELSE 0 - 1

\* onChange of the search input; the playlist is rendered for a library
\* that is not empty
setSearchTerm(term) ==
  /\ Len(songs) > 0
  /\ term # player.searchTerm
  /\ PlayerStep([player EXCEPT !.searchTerm = term])

selectSong(index) ==
  PlayerStep([player EXCEPT !.currentSongIndex = index, !.isPlaying = TRUE])

\* onClick of the f-th entry of the playlist shown
ClickSong(f) ==
  /\ Len(songs) > 0
  /\ f \in 1..Len(filteredSongs)
  /\ selectSong(findIndex(songs, filteredSongs[f].id))

toggleMute ==
  /\ Len(songs) > 0
  /\ PlayerStep([player EXCEPT !.isMuted = ~player.isMuted])

\* onChange of the volume slider
handleVolumeChange(newVolume) ==
  /\ Len(songs) > 0
  /\ newVolume # (IF player.isMuted THEN 0 ELSE player.volume)
  /\ PlayerStep([player EXCEPT
                   !.volume = newVolume,
                   !.isMuted = IF newVolume > 0 THEN FALSE ELSE @])

\* BulkUploader leaves the tree: its state is gone, and React drops the
\* state updates of calls that are still running for it.  A run of
\* handleProcessQueue then changes nothing any more and ends here; an
\* addSongs call still writes to the store and to App's songs.
UnmountBulk ==
  /\ stagedFiles' = <<>>
  /\ isProcessing' = FALSE
  /\ processedCount' = 0
  /\ pc' = "idle"
  /\ snapshot' = <<>>
  /\ idx' = 0
  /\ currentProcessed' = 0
  /\ locals' = NoLocals
  /\ attempted' = {}
  /\ commits' = [i \in 1..Len(commits) |-> [commits[i] EXCEPT !.mounted = FALSE]]

\* the handler below reachable while the library is still loading
handleLogin_whileLoading(role) ==
  /\ userRole = "null"
  /\ userRole' = role
  /\ activeTab' = "bulk"
  /\ settled' = <<>>
  /\ stored' = <<>>
  /\ UNCHANGED <<songs, isLoading, dbStore, single, player, bulkVars, runVars,
                 commitVars, envVars>>

\* LoginScreen's buttons; the screen is rendered once loading is over and
\* nobody is logged in.  AdminDashboard mounts with the bulk tab active.
handleLogin(role) ==
  /\ ~isLoading
  /\ userRole = "null"
  /\ userRole' = role
  /\ activeTab' = "bulk"
  /\ settled' = <<>>
  /\ stored' = <<>>
  /\ UNCHANGED <<songs, isLoading, dbStore, single, player, bulkVars, runVars,
                 commitVars, envVars>>

\* the Logout buttons: whatever was rendered leaves the tree, UserPlayer
\* with its state
handleLogout ==
  /\ ~isLoading
  /\ userRole # "null"
  /\ userRole' = "null"
  /\ player' = NewPlayer
  /\ IF BulkMounted THEN UnmountBulk
     ELSE UNCHANGED <<bulkVars, runVars, commits>>
  /\ settled' = <<>>
  /\ stored' = <<>>
  /\ UNCHANGED <<songs, isLoading, dbStore, activeTab, single, commitCalls, putCalls,
                 objectURLs, envVars>>

\* the tab buttons of AdminDashboard
setActiveTab(tab) ==
  /\ ~isLoading
  /\ userRole = "admin"
  /\ activeTab' = tab
  /\ IF BulkMounted /\ tab # "bulk" THEN UnmountBulk
     ELSE UNCHANGED <<bulkVars, runVars, commits>>
  /\ settled' = <<>>
  /\ stored' = <<>>
  /\ UNCHANGED <<userRole, songs, isLoading, dbStore, single, player, commitCalls, putCalls,
                 objectURLs, envVars>>

\* ---------------------------------------------------- SingleSongUploader
\* the form is rendered (AdminDashboard, activeTab === 'single')
SingleMounted == ~isLoading /\ userRole = "admin" /\ activeTab = "single"

\* no handleFetchInfo call is running
NoFetch == [pc |-> "idle", title |-> "", coverArtPreview |-> <<>>,
            url |-> <<>>, artResponse |-> <<>>]

\* the useState initial values; <<>> is null, fetch the running
\* handleFetchInfo call: the await it is suspended at and what it holds
NewSingle == [title |-> "", artist |-> "", album |-> "",
              coverArtFile |-> <<>>, coverArtPreview |-> <<>>,
              isFetching |-> FALSE, error |-> <<>>, fetch |-> NoFetch]

\* what the user types into the title input
SingleTitles == {"", "yesterday"}

\* an image the user picks in the cover art input
PickedCover == [name |-> <<"front.png">>, blob |-> <<"image", "front.png">>]

\* URL.createObjectURL(file) in the form: a URL unlike the live ones and
\* unlike those the form or its running call still refers to
PreviewURL(file) ==
  LET held == {p[1] : p \in {q \in {single.coverArtPreview,
                                    single.fetch.coverArtPreview} : q # <<>>}}
  IN ObjectURL(file, NthFree(objectURLs \cup held, 1))

\* if (coverArtPreview) URL.revokeObjectURL(coverArtPreview), then
\* createObjectURL(file)
SwapPreview(old, file) ==
  ({u \in objectURLs : old = <<>> \/ u # old[1]}) \cup {PreviewURL(file)}

\* onChange of the title input
setTitle(t) ==
  /\ SingleMounted
  /\ t # single.title
  /\ single' = [single EXCEPT !.title = t]
  /\ settled' = <<>>
  /\ stored' = <<>>
  /\ UNCHANGED <<userRole, songs, isLoading, dbStore, activeTab, player, bulkVars,
                 runVars, commitVars, envVars>>

\* onChange of the cover art input; files is e.target.files
handleCoverArtChange(files) ==
  /\ SingleMounted
  /\ Cardinality(objectURLs) < MaxPreviews
  /\ IF files = <<>>
     THEN UNCHANGED <<single, objectURLs>>
     ELSE /\ single' = [single EXCEPT
                          !.coverArtFile = <<files[1]>>,
                          !.coverArtPreview = <<PreviewURL(files[1])>>]
          /\ objectURLs' = SwapPreview(single.coverArtPreview, files[1])
  /\ settled' = <<>>
  /\ stored' = <<>>
  /\ UNCHANGED <<userRole, songs, isLoading, dbStore, activeTab, player, bulkVars,
                 runVars, commits, commitCalls, putCalls, envVars>>

\* onClick of "Fetch Info" (disabled while fetching or submitting), up to
\* the first await
handleFetchInfo ==
  /\ SingleMounted
  /\ ~single.isFetching
  /\ single' =
       IF ~Truthy(single.title)
       THEN [single EXCEPT
               !.error = <<<<"Please enter a song title to fetch info.">>>>]
       ELSE [single EXCEPT
               !.isFetching = TRUE,
               !.error = <<>>,
               !.fetch = [NoFetch EXCEPT
                            !.pc = "search",
                            !.title = single.title,
                            !.coverArtPreview = single.coverArtPreview]]
  /\ settled' = <<>>
  /\ stored' = <<>>
  /\ UNCHANGED <<userRole, songs, isLoading, dbStore, activeTab, player, bulkVars,
                 runVars, commitVars, envVars>>

\* catch (e) { setError(e.message) } finally { setIsFetching(false) }
InfoCatch(s, message) ==
  [s EXCEPT !.error = <<message>>, !.isFetching = FALSE, !.fetch = NoFetch]

\* a step of the running handleFetchInfo call, suspended at the await
\* named at, that leaves the form as next and the object URLs in live
InfoStep(at, next, live) ==
  /\ SingleMounted
  /\ single.fetch.pc = at
  /\ single' = next
  /\ objectURLs' = live
  /\ settled' = <<>>
  /\ stored' = <<>>
  /\ UNCHANGED <<userRole, songs, isLoading, dbStore, activeTab, player, bulkVars,
                 runVars, commits, commitCalls, putCalls, envVars>>

\* handleFetchInfo, await fetch(itunes search) settles
InfoSearchSettled ==
  \/ InfoStep("search", InfoCatch(single, FetchFailed), objectURLs)
  \/ \E ok \in BOOLEAN :
       InfoStep("search",
                IF ~ok
                THEN InfoCatch(single, <<"Failed to fetch from iTunes.">>)
                ELSE [single EXCEPT !.fetch.pc = "searchBody"],
                objectURLs)

\* handleFetchInfo, await response.json() settles; artist and album are
\* set from the first result and the artwork request is sent.  An absent
\* artworkUrl100 makes .replace throw a TypeError.
InfoJsonSettled ==
  \/ InfoStep("searchBody", InfoCatch(single, SyntaxErrorMessage), objectURLs)
  \/ \E data \in ItunesData :
       InfoStep("searchBody",
         IF data.resultCount = 0
         THEN InfoCatch(single, <<"No results found for \"",
                                  single.fetch.title, "\".">>)
         ELSE LET result == data.results[1]
                  set == [single EXCEPT !.artist = result.artistName,
                                        !.album = result.collectionName]
              IN IF result.artworkUrl100 = <<>>
                 THEN InfoCatch(set, <<"Cannot read properties of undefined">>)
                 ELSE [set EXCEPT
                         !.fetch.pc = "art",
                         !.fetch.url = HighResArtworkUrl(result)],
         objectURLs)

\* handleFetchInfo, await fetch(highResArtworkUrl) settles: the body is
\* read whatever the status of the response
InfoArtSettled ==
  \/ InfoStep("art", InfoCatch(single, FetchFailed), objectURLs)
  \/ \E ok \in BOOLEAN :
       InfoStep("art", [single EXCEPT !.fetch.pc = "artBody",
                                      !.fetch.artResponse = <<[ok |-> ok]>>],
                objectURLs)

\* the body of the artwork response: the image, or the server's error page
ArtBody(url, artResponse) ==
  IF artResponse.ok THEN url ELSE <<"error page of">> \o url

\* handleFetchInfo, await artResponse.blob() settles: the file is attached
\* and previewed, the preview the call saw when it started is revoked
InfoBlobSettled ==
  \/ InfoStep("artBody", InfoCatch(single, FetchFailed), objectURLs)
  \/ /\ single.fetch.pc = "artBody"
     /\ LET artFile == CoverArtFile(ArtBody(single.fetch.url,
                                            single.fetch.artResponse[1]))
        IN InfoStep("artBody",
                    [single EXCEPT !.coverArtFile = <<artFile>>,
                                   !.coverArtPreview = <<PreviewURL(artFile)>>,
                                   !.isFetching = FALSE,
                                   !.fetch = NoFetch],
                    SwapPreview(single.fetch.coverArtPreview, artFile))

\* ------------------------------------------------------- specification
Init ==
  /\ userRole = "null"
  /\ songs = <<>>
  /\ isLoading = TRUE
  /\ dbStore = {}
  /\ activeTab = "bulk"
  /\ single = NewSingle
  /\ player = NewPlayer
  /\ stagedFiles = <<>>
  /\ isProcessing = FALSE
  /\ processedCount = 0
  /\ pc = "idle"
  /\ snapshot = <<>>
  /\ idx = 0
  /\ currentProcessed = 0
  /\ locals = NoLocals
  /\ attempted = {}
  /\ settled = <<>>
  /\ stored = <<>>
  /\ objectURLs = {}
  /\ commits = <<>>
  /\ commitCalls = 0
  /\ putCalls = 0
  /\ nextId = 0
  /\ now = 0

Next ==
  \/ \E ok \in BOOLEAN : loadInitialSongs(ok)
  \/ \E role \in {"admin", "user"} : handleLogin(role)
  \/ handleLogout
  \/ \E tab \in {"bulk", "single"} : setActiveTab(tab)
  \/ \E n \in 0..MaxSelect : handleFileChange(FileList(n))
  \/ ClearAll
  \/ handleProcessQueue
  \/ GeminiSettled
  \/ ItunesSettled
  \/ ItunesJsonSettled
  \/ ArtSettled
  \/ ArtBlobSettled
  \/ ClickAddSongs
  \/ \E ok \in BOOLEAN : addSongsToDBSettled(ok)

Spec == Init /\ [][Next]_vars

\* ------------------------------------- commit as an operation on a batch
\* handleAddSongsToLibrary called on any batch an idle BulkUploader can
\* hold, whatever the state of the button that invokes it.

\* what processFile can return for a file
ProcessFileResults ==
  {[songDetails |-> <<SongDetails(d.results[1], GeminiTitle, GeminiArtist)>>,
    coverArtFile |-> <<CoverArtFile(HighResArtworkUrl(d.results[1]))>>] :
     d \in {x \in ItunesData : x.resultCount # 0
                                 /\ HighResArtworkUrl(x.results[1]) # <<>>}}

\* the messages the catch block can attach
ErrorTexts ==
  {ErrorText(m) : m \in SdkRejectMessages} \cup
  {SyntaxErrorMessage, <<"AI could not determine title and artist.">>,
   <<"iTunes search failed.">>, <<"Song not found on iTunes.">>,
   <<"Cover art not found.">>, <<"Failed to download cover art.">>}

\* what a staged item can look like while no run is in progress
ItemStates ==
  {[status |-> "pending", songDetails |-> <<>>, coverArtFile |-> <<>>,
    error |-> <<>>]} \cup
  {[status |-> "success", songDetails |-> r.songDetails,
    coverArtFile |-> r.coverArtFile, error |-> <<>>] : r \in ProcessFileResults} \cup
  {[status |-> "error", songDetails |-> <<>>, coverArtFile |-> <<>>,
    error |-> <<m>>] : m \in ErrorTexts}

\* the batches of up to MaxFiles items: processed items first, pending last
Batches ==
  {[i \in 1..Len(f) |->
      [id |-> i, file |-> AudioFile(i), status |-> f[i].status,
       songDetails |-> f[i].songDetails, coverArtFile |-> f[i].coverArtFile,
       error |-> f[i].error]] :
     f \in {g \in UNION {[1..n -> ItemStates] : n \in 0..MaxFiles} :
              \A i, j \in 1..Len(g) :
                 (i < j /\ g[i].status = "pending") => g[j].status = "pending"}}

\* what the store can hold when the uploader is opened: nothing, or a song
\* that an earlier addSongs call built from another file
EarlierStores ==
  {{}} \cup
  {{newStoredSongs(<<[title |-> r.songDetails[1].title,
                      artist |-> r.songDetails[1].artist,
                      album |-> r.songDetails[1].album,
                      audioFile |-> AudioFile(0),
                      coverArtFile |-> r.coverArtFile[1]]>>, <<0>>)[1]} :
     r \in ProcessFileResults}

InitCommit ==
  /\ userRole = "admin"
  /\ dbStore \in EarlierStores
  /\ songs = getSongsFromDB(dbStore, {})
  /\ isLoading = FALSE
  /\ activeTab = "bulk"
  /\ single = NewSingle
  /\ player = NewPlayer
  /\ stagedFiles \in Batches
  /\ isProcessing = FALSE
  /\ processedCount = CountStatus(stagedFiles, "success")
                         + CountStatus(stagedFiles, "error")
  /\ pc = "idle"
  /\ snapshot = <<>>
  /\ idx = 0
  /\ currentProcessed = 0
  /\ locals = NoLocals
  /\ attempted = {}
  /\ settled = <<>>
  /\ stored = <<>>
  /\ objectURLs = URLsOf(songs)
  /\ commits = <<>>
  /\ commitCalls = 0
  /\ putCalls = 0
  /\ nextId = Len(stagedFiles)
  /\ now = 0

NextCommit ==
  \/ handleAddSongsToLibrary
  \/ \E ok \in BOOLEAN : addSongsToDBSettled(ok)

SpecCommit == InitCommit /\ [][NextCommit]_vars

\* ------------------------------------------- a start with songs in store
\* The page is opened after an earlier session in which the first file was
\* staged, resolved to FullTrack and committed at clock reading 0: its song
\* is in the store, and the files of this session are the ones after it.
ReloadStore ==
  {newStoredSongs(<<[title |-> FullTrack.trackName,
                     artist |-> FullTrack.artistName,
                     album |-> FullTrack.collectionName,
                     audioFile |-> AudioFile(1),
                     coverArtFile |-> CoverArtFile(HighResArtworkUrl(FullTrack))]>>,
                  <<0>>)[1]}

InitLoad ==
  /\ userRole = "null"
  /\ songs = <<>>
  /\ isLoading = TRUE
  /\ dbStore = ReloadStore
  /\ activeTab = "bulk"
  /\ single = NewSingle
  /\ player = NewPlayer
  /\ stagedFiles = <<>>
  /\ isProcessing = FALSE
  /\ processedCount = 0
  /\ pc = "idle"
  /\ snapshot = <<>>
  /\ idx = 0
  /\ currentProcessed = 0
  /\ locals = NoLocals
  /\ attempted = {}
  /\ settled = <<>>
  /\ stored = <<>>
  /\ objectURLs = {}
  /\ commits = <<>>
  /\ commitCalls = 0
  /\ putCalls = 0
  /\ nextId = 1
  /\ now = 0

SpecLoad == InitLoad /\ [][Next]_vars

\* ----------------------------------------------------- the player alone
\* A listener is logged in.  The library holds the songs an administrator
\* has committed, all within the clock's first millisecond; the last commit
\* may still be waiting for the store.
PlayerTitles == {"Yesterday", "Help!", "Girl"}

\* the song data of the k-th file for the titles t
LibraryData(t) ==
  [k \in 1..Len(t) |->
     [title |-> t[k], artist |-> "The Beatles",
      album |-> IF t[k] = "Girl" THEN "Rubber Soul" ELSE "Help!",
      audioFile |-> AudioFile(k), coverArtFile |-> CoverArtFile(PlainUrl)]]

\* the display songs addSongs builds for positions from..to of data
LibrarySongs(data, from, to) ==
  [k \in 1..(to + 1 - from) |->
     LET d == data[from + k - 1] IN
     [id |-> SongId(0, d.title), title |-> d.title, artist |-> d.artist,
      album |-> d.album,
      audioSrc |-> ObjectURL(d.audioFile, 2 * (from + k - 1) - 1),
      coverArtSrc |-> ObjectURL(d.coverArtFile, 2 * (from + k - 1))]]

InitPlayer ==
  \E t \in UNION {[1..n -> PlayerTitles] : n \in 0..MaxSongs} :
  \E m \in 0..Len(t) :
    LET data == LibraryData(t)
        stamps == [k \in 1..Len(t) |-> 0]
        waiting == SubSeq(data, m + 1, Len(t))
    IN
    /\ userRole = "user"
    /\ songs = LibrarySongs(data, 1, m)
    /\ isLoading = FALSE
    /\ dbStore = PutAll({}, newStoredSongs(SubSeq(data, 1, m), SubSeq(stamps, 1, m)))
    /\ activeTab = "bulk"
    /\ single = NewSingle
    /\ player = NewPlayer
    /\ stagedFiles = <<>>
    /\ isProcessing = FALSE
    /\ processedCount = 0
    /\ pc = "idle"
    /\ snapshot = <<>>
    /\ idx = 0
    /\ currentProcessed = 0
    /\ locals = NoLocals
    /\ attempted = {}
    /\ settled = <<>>
    /\ stored = <<>>
    /\ objectURLs = URLsOf(LibrarySongs(data, 1, Len(t)))
    /\ commits =
         IF m = Len(t) THEN <<>>
         ELSE <<[successfulFiles |->
                   [k \in 1..Len(waiting) |->
                      Spread(NewStagedFile(m + k, waiting[k].audioFile),
                             [status |-> "success",
                              songDetails |-> <<[title |-> waiting[k].title,
                                                 artist |-> waiting[k].artist,
                                                 album |-> waiting[k].album]>>,
                              coverArtFile |-> <<waiting[k].coverArtFile>>])],
                  stamps |-> SubSeq(stamps, m + 1, Len(t)),
                  newStoredSongs |->
                     newStoredSongs(waiting, SubSeq(stamps, m + 1, Len(t))),
                  newDisplaySongs |-> LibrarySongs(data, m + 1, Len(t)),
                  mounted |-> FALSE]>>
    /\ commitCalls = IF Len(t) = 0 THEN 0 ELSE 1
    /\ putCalls = IF Len(t) = 0 THEN 0 ELSE 1
    /\ nextId = Len(t)
    /\ now = 0

NextPlayer ==
  \/ togglePlayPause
  \/ playNext
  \/ playPrev
  \/ handleSongEnd
  \/ \E term \in SearchTerms : setSearchTerm(term)
  \/ \E f \in 1..MaxSongs : ClickSong(f)
  \/ toggleMute
  \/ \E newVolume \in {0, 1} : handleVolumeChange(newVolume)
  \/ \E ok \in BOOLEAN : addSongsToDBSettled(ok)

SpecPlayer == InitPlayer /\ [][NextPlayer]_vars

\* ------------------------------------------- the single-song form alone
\* An administrator on the Single Upload tab: the form as mounted, the
\* library empty.
InitSingle ==
  /\ userRole = "admin"
  /\ songs = <<>>
  /\ isLoading = FALSE
  /\ dbStore = {}
  /\ activeTab = "single"
  /\ single = NewSingle
  /\ player = NewPlayer
  /\ stagedFiles = <<>>
  /\ isProcessing = FALSE
  /\ processedCount = 0
  /\ pc = "idle"
  /\ snapshot = <<>>
  /\ idx = 0
  /\ currentProcessed = 0
  /\ locals = NoLocals
  /\ attempted = {}
  /\ settled = <<>>
  /\ stored = <<>>
  /\ objectURLs = {}
  /\ commits = <<>>
  /\ commitCalls = 0
  /\ putCalls = 0
  /\ nextId = 0
  /\ now = 0

NextSingle ==
  \/ \E t \in SingleTitles : setTitle(t)
  \/ \E files \in {<<>>, <<PickedCover>>} : handleCoverArtChange(files)
  \/ handleFetchInfo
  \/ InfoSearchSettled
  \/ InfoJsonSettled
  \/ InfoArtSettled
  \/ InfoBlobSettled

SpecSingle == InitSingle /\ [][NextSingle]_vars

\* ----------------------------------------------------------- properties
Terminal(st) == st \in {"success", "error"}

IdsWith(list, st) == {list[i].id : i \in {k \in 1..Len(list) : list[k].status = st}}

\* a run of handleProcessQueue ends in this step, its component still being
\* mounted; snapshot and attempted are the batch and the calls of that run
RunCompletes == isProcessing /\ ~isProcessing' /\ BulkMounted'

\* C1 (as stated): at the moment processAll completes, every item of the
\* staged collection has status success or error.
C1_AllStagedTerminal ==
  [][RunCompletes =>
       \A i \in 1..Len(stagedFiles') : Terminal(stagedFiles'[i].status)]_vars

\* C1 (amended): at the moment processAll completes, every item that was in
\* the staged collection when the run was triggered and is still staged has
\* status success or error; items staged during the run are not covered.
C1_BatchTerminal ==
  [][RunCompletes =>
       \A k \in 1..Len(snapshot) : \A i \in 1..Len(stagedFiles') :
          stagedFiles'[i].id = snapshot[k].id
             => Terminal(stagedFiles'[i].status)]_vars

\* a run has just completed, its item is still staged and terminal, and a
\* file staged meanwhile is still pending
C1_Witness ==
  /\ pc = "idle" /\ ~isProcessing /\ processedCount = 1
  /\ Len(stagedFiles) = 2
  /\ settled # <<>> /\ settled[1].id = stagedFiles[1].id
  /\ Terminal(stagedFiles[1].status)
  /\ stagedFiles[2].status = "pending"

\* C2 (as stated): a completed run has re-attempted every item that was not
\* success when it started (the error items included).
C2_RetriesNonSuccess ==
  [][RunCompletes =>
       \A k \in 1..Len(snapshot) :
          snapshot[k].status # "success" => snapshot[k].id \in attempted]_vars

\* C2 (amended): a run calls processFile exactly for the items that were
\* pending when it started; success and error items are skipped, and as long
\* as they are staged they keep status, metadata, artwork and error message.
C2_RerunOnlyPending ==
  [][/\ attempted' \subseteq IdsWith(snapshot', "pending")
     /\ RunCompletes => attempted = IdsWith(snapshot, "pending")
     /\ \A k \in 1..Len(snapshot) : \A i \in 1..Len(stagedFiles') :
          (Terminal(snapshot[k].status) /\ stagedFiles'[i].id = snapshot[k].id)
             => stagedFiles'[i] = snapshot[k]]_vars

\* the last step of a re-run over an error and a pending item: only the
\* pending item has been taken up
C2_Witness ==
  /\ isProcessing /\ pc = "artBody"
  /\ Len(snapshot) = 2 /\ Len(stagedFiles) = 2
  /\ snapshot[1].status = "error" /\ snapshot[2].status = "pending"
  /\ attempted = {snapshot[2].id}
  /\ stagedFiles[1] = snapshot[1]
  /\ stagedFiles[2].status = "processing"

\* C3: items are processed one at a time in staging order: whenever an item
\* has left pending, every item staged before it is already success or
\* error; hence at most one item is processing.
C3_Sequential ==
  /\ \A i, j \in 1..Len(stagedFiles) :
        (i < j /\ stagedFiles[j].status # "pending")
           => Terminal(stagedFiles[i].status)
  /\ Cardinality(IdsWith(stagedFiles, "processing")) <= 1

\* the first item of a batch of two is done and the second is in hand
C3_Witness ==
  /\ Len(stagedFiles) = 2
  /\ Terminal(stagedFiles[1].status)
  /\ stagedFiles[2].status = "processing"
  /\ snapshot = [stagedFiles EXCEPT ![1].status = "pending", ![2].status = "pending",
                                    ![1].songDetails = <<>>, ![1].coverArtFile = <<>>,
                                    ![1].error = <<>>]

\* C4: the status of a staged item only moves pending -> processing ->
\* success or error; a success or error item is never changed, and leaves
\* the collection only when the whole collection is emptied.
C4_ForwardOnly ==
  [][/\ \A i \in 1..Len(stagedFiles) : \A j \in 1..Len(stagedFiles') :
          stagedFiles'[j].id = stagedFiles[i].id =>
             \/ stagedFiles'[j].status = stagedFiles[i].status
             \/ <<stagedFiles[i].status, stagedFiles'[j].status>> \in
                   {<<"pending", "processing">>, <<"processing", "success">>,
                    <<"processing", "error">>}
     /\ \A i \in 1..Len(stagedFiles) :
          Terminal(stagedFiles[i].status) =>
             \/ stagedFiles' = <<>>
             \/ i <= Len(stagedFiles') /\ stagedFiles'[i] = stagedFiles[i]]_vars

\* both terminal statuses have been reached through processing
C4_Witness ==
  /\ Len(stagedFiles) = 2 /\ ~isProcessing /\ processedCount = 2
  /\ stagedFiles[1].status = "error" /\ stagedFiles[2].status = "success"
  /\ settled # <<>> /\ settled[1].id = stagedFiles[2].id
  /\ settled[1].outcome = "resolved"

\* C5: when processFile fails for an item, that item (if still staged)
\* becomes error with the message thrown (the fallback text when the error
\* carries none), no other item becomes error or changes otherwise, and the
\* loop goes on: the run only ends when no later item of the batch was
\* pending, and a completed run has called processFile for every item
\* that was pending when it started.
C5_FailureIsolated ==
  [][(settled' # <<>> /\ settled' # settled /\ settled'[1].outcome = "rejected") =>
       LET t == settled'[1] IN
       /\ Len(stagedFiles') = Len(stagedFiles)
       /\ \A i \in 1..Len(stagedFiles) :
            IF stagedFiles[i].id = t.id
            THEN /\ stagedFiles'[i].status = "error"
                 /\ stagedFiles'[i].error # <<>>
                 /\ stagedFiles'[i].error[1] # <<>>
                 /\ t.raw # <<>> => stagedFiles'[i].error = <<t.raw>>
                 /\ stagedFiles'[i] = [stagedFiles[i] EXCEPT
                                         !.status = "error",
                                         !.error = stagedFiles'[i].error]
            ELSE \/ stagedFiles'[i] = stagedFiles[i]
                 \/ /\ stagedFiles[i].status = "pending"
                    /\ stagedFiles'[i] = [stagedFiles[i] EXCEPT !.status = "processing"]
       /\ IF \E k \in (idx + 1)..Len(snapshot) : snapshot[k].status = "pending"
          THEN /\ isProcessing' /\ pc' = "extract" /\ idx' > idx
               /\ snapshot[idx'].status = "pending"
               /\ \A k \in (idx + 1)..(idx' - 1) : snapshot[k].status # "pending"
          ELSE /\ ~isProcessing' /\ pc' = "idle"
               /\ attempted = IdsWith(snapshot, "pending")]_vars

\* the first item of a batch failed and the second one is being processed
C5_Witness ==
  /\ settled # <<>> /\ settled[1].outcome = "rejected"
  /\ Len(stagedFiles) >= 2 /\ Len(snapshot) >= 2
  /\ settled[1].id = stagedFiles[1].id
  /\ snapshot[1].status = "pending" /\ snapshot[2].status = "pending"
  /\ stagedFiles[1].status = "error"
  /\ stagedFiles[2].status = "processing"
  /\ pc = "extract" /\ idx = 2

\* C6: a call of handleAddSongsToLibrary on a batch without a success item
\* submits nothing to addSongs, writes nothing to the store and leaves the
\* staged collection, the progress counter and the library as they were.
C6_EmptyCommitNoEffect ==
  [][(commitCalls' # commitCalls /\ successfulCount = 0) =>
       UNCHANGED <<stagedFiles, processedCount, songs, dbStore, commits,
                   putCalls>>]_vars

\* the handler has been called on a non-empty batch without a success item
C6_Witness ==
  /\ commitCalls > 0 /\ putCalls = 0
  /\ Len(stagedFiles) > 0 /\ successfulCount = 0
  /\ \E i \in 1..Len(stagedFiles) : stagedFiles[i].status = "error"
  /\ songs = <<>> /\ dbStore = {} /\ commits = <<>>

\* C7: the records a commit submits are built one by one from items that
\* are in the staged collection with status success when the handler runs,
\* and nothing reaches the store that was not submitted that way.
C7_RecordsFromSuccess ==
  [][/\ putCalls' # putCalls =>
          LET c == commits'[Len(commits')] IN
          /\ Len(c.newStoredSongs) = Len(c.successfulFiles)
          /\ Len(c.newDisplaySongs) = Len(c.successfulFiles)
          /\ \A k \in 1..Len(c.successfulFiles) :
               LET sf == c.successfulFiles[k] IN
               /\ sf.status = "success"
               /\ \E i \in 1..Len(stagedFiles) : stagedFiles[i] = sf
               /\ sf.songDetails # <<>>
               /\ c.newStoredSongs[k].title = sf.songDetails[1].title
               /\ c.newStoredSongs[k].audioFile = sf.file
     /\ \A r \in dbStore' \ dbStore :
          /\ commits # <<>>
          /\ \E k \in 1..Len(commits[1].newStoredSongs) :
               r = commits[1].newStoredSongs[k]]_vars

\* a commit of a batch holding a success and an error item is under way
C7_Witness ==
  /\ Len(commits) = 1 /\ Len(stagedFiles) = 2
  /\ stagedFiles[1].status = "error" /\ stagedFiles[2].status = "success"
  /\ commits[1].successfulFiles = <<stagedFiles[2]>>
  /\ Len(commits[1].newStoredSongs) = 1

\* C8: staging appends one pending item per selected file, in order and with
\* fresh ids, and leaves the existing items and the run state as they were.
C8_StageAppends ==
  [][nextId' # nextId =>
       LET n == nextId' - nextId
           m == Len(stagedFiles)
       IN /\ n > 0
          /\ Len(stagedFiles') = m + n
          /\ \A i \in 1..m : stagedFiles'[i] = stagedFiles[i]
          /\ \A k \in 1..n :
               /\ stagedFiles'[m + k].status = "pending"
               /\ stagedFiles'[m + k].file = AudioFile(nextId + k)
               /\ stagedFiles'[m + k].songDetails = <<>>
               /\ stagedFiles'[m + k].coverArtFile = <<>>
               /\ stagedFiles'[m + k].error = <<>>
               /\ \A i \in 1..(m + n) :
                    i # m + k => stagedFiles'[i].id # stagedFiles'[m + k].id
          /\ UNCHANGED <<isProcessing, processedCount, pc, snapshot, idx>>]_vars

\* a file was staged while the first item of a run is being processed
C8_Witness ==
  /\ isProcessing /\ pc # "idle"
  /\ Len(snapshot) = 1 /\ Len(stagedFiles) = 2
  /\ stagedFiles[1].id = snapshot[1].id
  /\ stagedFiles[1].status = "processing"
  /\ stagedFiles[2].status = "pending"

\* C9: every step of a run that passes items (the click, a success, a
\* failure) leaves the progress counter at the number of batch items the
\* loop has gone past, skipped ones included, so the counter grows while the
\* run is under way, and equals the size of the batch when the run ends.
C9_ProgressPerItem ==
  [][(idx' # idx /\ BulkMounted') =>
       /\ processedCount' = IF pc' = "idle" THEN Len(snapshot) ELSE idx' - 1
       /\ pc' # "idle" => currentProcessed' = processedCount'
       /\ pc # "idle" => processedCount' > currentProcessed]_vars

\* a re-run has just been started: its first item was skipped and counted,
\* its second one is in hand and the counter shows 1
C9_Witness ==
  /\ isProcessing /\ pc = "extract" /\ idx = 2 /\ Len(snapshot) = 2
  /\ snapshot[1].status = "success" /\ snapshot[2].status = "pending"
  /\ stagedFiles[2].status = "processing"
  /\ currentProcessed = 1 /\ processedCount = 1

\* the catalog answered the last settled processFile call with zero matches
ZeroMatches ==
  /\ settled # <<>>
  /\ settled[1].locals.itunesData # <<>>
  /\ settled[1].locals.itunesData[1].resultCount = 0

\* C10 (as stated): after a lookup with zero matches the item is error and
\* its message contains the title that was looked up.
C10_MessageNamesTitle ==
  ZeroMatches =>
     \A i \in 1..Len(stagedFiles) :
        stagedFiles[i].id = settled[1].id =>
           /\ stagedFiles[i].status = "error"
           /\ stagedFiles[i].error # <<>>
           /\ \E k \in 1..Len(stagedFiles[i].error[1]) :
                stagedFiles[i].error[1][k] = settled[1].locals.title

\* C10 (amended): after a lookup with zero matches the item is error with
\* the fixed message 'Song not found on iTunes.', which names no title, and
\* has neither metadata nor artwork.
C10_NotFoundMessage ==
  ZeroMatches =>
     \A i \in 1..Len(stagedFiles) :
        stagedFiles[i].id = settled[1].id =>
           /\ stagedFiles[i].status = "error"
           /\ stagedFiles[i].error = << <<"Song not found on iTunes.">> >>
           /\ stagedFiles[i].songDetails = <<>>
           /\ stagedFiles[i].coverArtFile = <<>>

C10_Witness ==
  /\ ZeroMatches
  /\ \E i \in 1..Len(stagedFiles) :
       stagedFiles[i].id = settled[1].id /\ stagedFiles[i].status = "error"

\* the artwork download of the processFile call that has just settled was
\* answered with a non-2xx response
ArtNot2xx ==
  /\ settled # <<>>
  /\ settled[1].locals.artResponse # <<>>
  /\ ~settled[1].locals.artResponse[1].ok

\* C11: when the artwork download of a bulk item is answered with a non-2xx
\* response, processFile fails and the item is error, with the download
\* message and with neither resolved metadata nor a cover-art file.
C11_ArtFailureNothingAttached ==
  ArtNot2xx =>
     /\ settled[1].outcome = "rejected"
     /\ \A i \in 1..Len(stagedFiles) :
          stagedFiles[i].id = settled[1].id =>
             /\ stagedFiles[i].status = "error"
             /\ stagedFiles[i].error = << <<"Failed to download cover art.">> >>
             /\ stagedFiles[i].songDetails = <<>>
             /\ stagedFiles[i].coverArtFile = <<>>

\* an item whose catalog lookup had resolved its metadata has just failed at
\* the artwork download and is staged as error
C11_Witness ==
  /\ ArtNot2xx
  /\ settled[1].locals.songDetails # <<>>
  /\ \E i \in 1..Len(stagedFiles) :
       stagedFiles[i].id = settled[1].id /\ stagedFiles[i].status = "error"

\* C12: when the store write of a commit fails, the audio URL and the cover
\* URL of every record of that commit, live until then, are revoked, no other
\* URL is, and the in-memory library and the store are left as they were.
C12_FailedWriteReleasesURLs ==
  [][(stored' # <<>> /\ ~stored'[1].ok) =>
       LET new == stored'[1].call.newDisplaySongs IN
       /\ songs' = songs
       /\ dbStore' = dbStore
       /\ \A i \in 1..Len(new) :
            /\ new[i].audioSrc \in objectURLs /\ new[i].audioSrc \notin objectURLs'
            /\ new[i].coverArtSrc \in objectURLs /\ new[i].coverArtSrc \notin objectURLs'
       /\ \A u \in objectURLs \ objectURLs' :
            \E i \in 1..Len(new) : u \in {new[i].audioSrc, new[i].coverArtSrc}]_vars

\* the store write of a commit of two records has just failed
C12_Witness ==
  /\ stored # <<>> /\ ~stored[1].ok
  /\ Len(stored[1].call.newDisplaySongs) = 2
  /\ songs = <<>> /\ dbStore = {} /\ objectURLs = {}

\* the staged item stagedFiles[i] is no longer staged after the step
Leaves(i) == \A j \in 1..Len(stagedFiles') : stagedFiles'[j].id # stagedFiles[i].id

\* the store holds a record made from the file of stagedFiles[i] after the step
Persisted(i) == \E r \in dbStore' : r.audioFile = stagedFiles[i].file

\* C13 (as stated): while the uploader is open, a staged item leaves the
\* staged collection only in a Clear All step or when it has been committed
\* to the store; a commit whose store write fails, or a commit of other
\* items, discards no item that was not persisted.
C13_DiscardedOnlyClearedOrCommitted ==
  [][BulkMounted' =>
       \A i \in 1..Len(stagedFiles) :
          Leaves(i) => (ClearAll \/ Persisted(i))]_vars

\* The outcome of pipeline step k as the locals L of a processFile call
\* record it: 1 extraction, 2 catalog request, 3 match count, 4 artwork URL
\* presence, 5 artwork download.
StepDone(L, k) ==
  CASE k = 1 -> L.geminiResponse # <<>>
    [] k = 2 -> L.itunesResponse # <<>>
    [] k = 3 -> L.itunesData # <<>>
    [] k = 4 -> L.itunesData # <<>> /\ L.itunesData[1].resultCount # 0
    [] k = 5 -> L.artResponse # <<>>

StepFailed(L, k) ==
  StepDone(L, k) /\
  CASE k = 1 -> \/ L.geminiResponse[1].kind = "malformed"
                \/ L.geminiResponse[1].title \in {"", Undefined}
                \/ L.geminiResponse[1].artist \in {"", Undefined}
    [] k = 2 -> ~L.itunesResponse[1].ok
    [] k = 3 -> L.itunesData[1].resultCount = 0
    [] k = 4 -> L.itunesData[1].results[1].artworkUrl100 = <<>>
    [] k = 5 -> ~L.artResponse[1].ok

StepMessage(L, k) ==
  CASE k = 1 -> IF L.geminiResponse[1].kind = "malformed" THEN SyntaxErrorMessage
                ELSE <<"AI could not determine title and artist.">>
    [] k = 2 -> <<"iTunes search failed.">>
    [] k = 3 -> <<"Song not found on iTunes.">>
    [] k = 4 -> <<"Cover art not found.">>
    [] k = 5 -> <<"Failed to download cover art.">>

\* the requests sent when step k is reached
CallsAt(k) ==
  CASE k = 1 -> <<"generateContent">>
    [] k \in {2, 3, 4} -> <<"generateContent", "search">>
    [] k = 5 -> <<"generateContent", "search", "art">>

\* C14: whatever the outcomes of the five steps, a processFile call that has
\* settled went through them in order (a step was reached only after every
\* earlier one succeeded), sent no request and recorded no result after the
\* first failing step, failed with that step's message, and resolved only
\* with all five steps done and successful.
C14_FirstFailureDecides ==
  settled # <<>> =>
     LET t == settled[1]
         L == t.locals
     IN /\ \A k \in 1..5 :
             StepDone(L, k) => \A h \in 1..(k - 1) : StepDone(L, h) /\ ~StepFailed(L, h)
        /\ \A k \in 1..5 :
             StepFailed(L, k) =>
                /\ t.outcome = "rejected"
                /\ t.raw = StepMessage(L, k)
                /\ L.calls = CallsAt(k)
                /\ \A h \in (k + 1)..5 : ~StepDone(L, h)
        /\ t.outcome = "resolved" =>
             /\ \A k \in 1..5 : StepDone(L, k) /\ ~StepFailed(L, k)
             /\ L.calls = CallsAt(5)

\* a call has just failed at the fourth step: extraction, catalog request
\* and match count succeeded, the result has no artwork URL
C14_Witness ==
  /\ settled # <<>>
  /\ StepFailed(settled[1].locals, 4)
  /\ settled[1].raw = <<"Cover art not found.">>
  /\ settled[1].locals.calls = <<"generateContent", "search">>

\* a catalog field when it is present, the extracted value otherwise
FieldOr(v, extracted) == IF v \in {"", Undefined} THEN extracted ELSE v

\* new is old with its first 100x100 turned into 600x600
HighRes(old, new) ==
  /\ Len(new) = Len(old)
  /\ \A p \in 1..Len(old) :
       new[p] = IF old[p] = "100x100" /\ \A q \in 1..(p - 1) : old[q] # "100x100"
                THEN "600x600" ELSE old[p]

\* C15: an item that has just succeeded carries title, artist and album of
\* the first catalog result, with the extracted title, artist and title in
\* place of an absent field, and the artwork served at the result's artwork
\* URL with 100x100 turned into 600x600; every record an addSongs call is
\* given carries exactly the metadata, audio file and artwork of its item.
C15_MetadataFromFirstResult ==
  [][/\ (settled' # <<>> /\ settled'[1].outcome = "resolved") =>
          LET L == settled'[1].locals
              first == L.itunesData[1].results[1]
              got == L.geminiResponse[1]
          IN /\ "art" \in {L.calls[k] : k \in 1..Len(L.calls)}
             /\ HighRes(first.artworkUrl100, L.url)
             /\ \A i \in 1..Len(stagedFiles') :
                  stagedFiles'[i].id = settled'[1].id =>
                     /\ stagedFiles'[i].songDetails =
                           <<[title |-> FieldOr(first.trackName, got.title),
                              artist |-> FieldOr(first.artistName, got.artist),
                              album |-> FieldOr(first.collectionName, got.title)]>>
                     /\ stagedFiles'[i].coverArtFile # <<>>
                     /\ stagedFiles'[i].coverArtFile[1].blob = L.url
     /\ putCalls' # putCalls =>
          LET c == commits'[Len(commits')] IN
          \A k \in 1..Len(c.successfulFiles) :
             LET sf == c.successfulFiles[k]
                 r == c.newStoredSongs[k]
             IN /\ r.title = sf.songDetails[1].title
                /\ r.artist = sf.songDetails[1].artist
                /\ r.album = sf.songDetails[1].album
                /\ r.audioFile = sf.file
                /\ r.coverArtFile = sf.coverArtFile[1]]_vars

\* a commit is under way with a record taken from a full catalog result and
\* one that fell back to the extracted title for title and album
C15_Witness ==
  /\ Len(commits) = 1 /\ Len(commits[1].newStoredSongs) = 2
  /\ \E k \in 1..2 :
       /\ commits[1].newStoredSongs[k].album = "Help!"
       /\ commits[1].newStoredSongs[k].coverArtFile.blob =
             <<"http://x/", "600x600", "bb.jpg">>
  /\ \E k \in 1..2 :
       /\ commits[1].newStoredSongs[k].title = GeminiTitle
       /\ commits[1].newStoredSongs[k].album = GeminiTitle
       /\ commits[1].newStoredSongs[k].artist = GeminiArtist

\* typeof v === 'string'
IsString(v) == v \notin {Undefined, NumberValue}

\* title and artist of the parsed extraction response r are non-empty strings
ValidExtraction(r) ==
  /\ r.kind = "json"
  /\ IsString(r.title) /\ r.title # ""
  /\ IsString(r.artist) /\ r.artist # ""

\* C16 (as stated): a processFile call goes on past the extraction step only
\* with a response whose title and artist are non-empty strings; with any
\* other response it sends no catalog request and fails, and the item is
\* error without metadata or artwork.
C16_ExtractionValidated ==
  /\ locals.geminiResponse # <<>> => ValidExtraction(locals.geminiResponse[1])
  /\ (settled # <<>> /\ settled[1].locals.geminiResponse # <<>>
         /\ ~ValidExtraction(settled[1].locals.geminiResponse[1])) =>
        /\ settled[1].outcome = "rejected"
        /\ settled[1].locals.calls = <<"generateContent">>
        /\ \A i \in 1..Len(stagedFiles) :
             stagedFiles[i].id = settled[1].id =>
                /\ stagedFiles[i].status = "error"
                /\ stagedFiles[i].songDetails = <<>>
                /\ stagedFiles[i].coverArtFile = <<>>

\* C17 (as stated): while a run is in progress no step is a Clear All, an
\* Add to Library or a second Process click, no staged item is removed, and
\* the run either goes on over the same batch or ends.
C17_RunUndisturbed ==
  [][isProcessing =>
       /\ ~ClearAll /\ ~ClickAddSongs /\ ~handleProcessQueue
       /\ \A i \in 1..Len(stagedFiles) : ~Leaves(i)
       /\ snapshot' = snapshot \/ ~isProcessing']_vars

\* the records of the addSongs calls awaiting the store, each with the clock
\* reading it was created at
Created ==
  UNION {{[stamp |-> commits[c].stamps[i], song |-> commits[c].newStoredSongs[i]] :
            i \in 1..Len(commits[c].newStoredSongs)} : c \in 1..Len(commits)}

C19_StoredRecordsKept ==
  [][\A r \in dbStore :
        \E q \in dbStore' :
           /\ q.id = r.id
           /\ q.title = r.title /\ q.artist = r.artist /\ q.album = r.album
           /\ q.audioFile = r.audioFile /\ q.coverArtFile = r.coverArtFile]_vars

\* C20 (as stated): an artwork download that answers with a non-success
\* status attaches no cover-art file, in processFile (the item ends in
\* error without a cover) and in handleFetchInfo (the form's cover-art file
\* and preview stay as they were) alike.
C20_ArtStatusCheckedEverywhere ==
  [][/\ (pc = "art" /\ ArtNot2xx') =>
          \A i \in 1..Len(stagedFiles') :
             stagedFiles'[i].id = settled'[1].id =>
                /\ stagedFiles'[i].status = "error"
                /\ stagedFiles'[i].coverArtFile = <<>>
     /\ (/\ single.fetch.pc = "artBody"
         /\ ~single.fetch.artResponse[1].ok
         /\ single'.fetch.pc = "idle") =>
          /\ single'.coverArtFile = single.coverArtFile
          /\ single'.coverArtPreview = single.coverArtPreview]_vars

\* C21: every staged item has resolved metadata and a cover-art file exactly
\* when its status is success, and an error message exactly when its status
\* is error; pending and processing items carry none of the three.
C21_FieldsMatchStatus ==
  \A i \in 1..Len(stagedFiles) :
     LET sf == stagedFiles[i] IN
     /\ (sf.songDetails # <<>> /\ sf.coverArtFile # <<>>) <=> sf.status = "success"
     /\ sf.error # <<>> <=> sf.status = "error"
     /\ sf.status \in {"pending", "processing"} =>
          sf.songDetails = <<>> /\ sf.coverArtFile = <<>> /\ sf.error = <<>>
     /\ sf.status = "success" => sf.error = <<>>
     /\ sf.status = "error" => sf.songDetails = <<>> /\ sf.coverArtFile = <<>>

\* a success item with metadata and cover next to an error item with its
\* message
C21_Witness ==
  \E i, j \in 1..Len(stagedFiles) :
     /\ stagedFiles[i].status = "success"
     /\ stagedFiles[i].songDetails # <<>>
     /\ stagedFiles[i].coverArtFile # <<>>
     /\ stagedFiles[j].status = "error"
     /\ stagedFiles[j].error # <<>>

\* C22 (as stated): once the initial load has finished, whatever commits
\* have succeeded or failed since, the in-memory library and the store hold
\* the same songs: as many records, and the same set of ids.
C22_LibraryMatchesStore ==
  ~isLoading =>
     /\ Len(songs) = Cardinality(dbStore)
     /\ {songs[i].id : i \in 1..Len(songs)} = {r.id : r \in dbStore}

\* C23: while the library is loading nothing happens but the load
\* finishing, which clears isLoading whether the read succeeded or failed:
\* nobody is or gets logged in and no commit is or gets started, the store
\* is not written, the library is empty when the load sets it, and the
\* load leaves either the store's songs (success) or the empty library
\* (failure).
C23_LoadGatesEverything ==
  [][isLoading =>
       /\ ~isLoading'
       /\ userRole = "null" /\ userRole' = "null"
       /\ commits = <<>> /\ commits' = <<>>
       /\ commitCalls' = 0 /\ putCalls' = 0
       /\ stagedFiles' = <<>>
       /\ songs = <<>>
       /\ dbStore' = dbStore
       /\ songs' \in {<<>>, getSongsFromDB(dbStore, objectURLs)}]_vars

\* the load has put a stored song into the library and a commit has added
\* another one behind it
C23_Witness ==
  /\ ~isLoading
  /\ Len(songs) >= 2
  /\ \E r \in ReloadStore : songs[1].id = r.id
  /\ \E i \in 2..Len(songs) : songs[i].id # songs[1].id

\* the ids of the items the running handler iterates over
SnapshotIds == {snapshot[k].id : k \in 1..Len(snapshot)}

\* the staged item at position i was staged after the run was triggered
Late(i) == stagedFiles[i].id \notin SnapshotIds

\* the step is one of the running handleProcessQueue call
RunStep ==
  isProcessing /\ BulkMounted' /\ (settled' # <<>> \/ pc' # pc \/ idx' # idx)

\* C24: a run works on the staged collection as it was when triggered.
\* Files staged during the run are appended as pending items and the run's
\* collection stays as it was; the run calls processFile only for items of
\* its collection; each step of the run, its last one included, leaves the
\* items staged since in place, unchanged and pending.
C24_RunWorksOnSnapshot ==
  [][isProcessing =>
       /\ attempted \subseteq SnapshotIds
       /\ \A i \in 1..Len(stagedFiles) :
            Late(i) => stagedFiles[i] =
                         NewStagedFile(stagedFiles[i].id, stagedFiles[i].file)
       /\ (isProcessing' /\ Len(stagedFiles') > Len(stagedFiles)) =>
            /\ snapshot' = snapshot
            /\ attempted' = attempted
            /\ SubSeq(stagedFiles', 1, Len(stagedFiles)) = stagedFiles
            /\ \A i \in (Len(stagedFiles) + 1)..Len(stagedFiles') :
                 /\ stagedFiles'[i].status = "pending"
                 /\ stagedFiles'[i].id \notin SnapshotIds
       /\ RunStep =>
            /\ Len(stagedFiles') = Len(stagedFiles)
            /\ \A i \in 1..Len(stagedFiles) :
                 Late(i) => /\ stagedFiles'[i] = stagedFiles[i]
                            /\ stagedFiles'[i].status = "pending"]_vars

\* the run has just ended with its only item settled, and the file staged
\* while it ran is behind it, pending
C24_Witness ==
  /\ settled # <<>>
  /\ ~isProcessing
  /\ Len(stagedFiles) = 2
  /\ stagedFiles[1].id = settled[1].id
  /\ Terminal(stagedFiles[1].status)
  /\ stagedFiles[2].status = "pending"

\* the index is one of the library's
InRange(p) == p.currentSongIndex \in 0..(Len(songs) - 1)

\* C25: in the player, with a library of n > 0 songs the current index is
\* within 0..n-1 before and after every event; next (also when a song
\* ends) and previous step by one and wrap around at the ends, each undoes
\* the other, and they and select set isPlaying; with an empty library
\* next, previous and play/pause leave the player as it was mounted.
C25_PlayerIndexInRange ==
  [][PlayerMounted =>
       LET n == Len(songs)
           i == player.currentSongIndex
       IN /\ n > 0 =>
               /\ InRange(player)
               /\ PlayerMounted' => player'.currentSongIndex \in 0..(Len(songs') - 1)
               /\ NextIndex(PrevIndex(i, n), n) = i
               /\ PrevIndex(NextIndex(i, n), n) = i
               /\ (playNext \/ handleSongEnd) =>
                    /\ player'.currentSongIndex = IF i = n - 1 THEN 0 ELSE i + 1
                    /\ player'.isPlaying
               /\ playPrev =>
                    /\ player'.currentSongIndex = IF i = 0 THEN n - 1 ELSE i - 1
                    /\ player'.isPlaying
               /\ (\E f \in 1..n : ClickSong(f)) => player'.isPlaying
          /\ n = 0 =>
               /\ i = 0 /\ ~player.isPlaying
               /\ (playNext \/ playPrev \/ togglePlayPause) => player' = player]_vars

\* the player is playing the last of three songs, all of them stored
C25_Witness ==
  /\ PlayerMounted
  /\ Len(songs) = 3
  /\ player.currentSongIndex = 2
  /\ player.isPlaying
  /\ stored = <<>>
  /\ commits = <<>>
====
